---------------------------- MODULE Spec2Model ----------------------------
(***************************************************************************)
(* Model of resources/callback_plugins/vscode_progress.py: the Ansible     *)
(* callback plugin CallbackModule that streams playbook progress events    *)
(* over a Unix socket.                                                     *)
(*                                                                         *)
(* Python values are tagged records: [t |-> "none"], [t |-> "bool", v],    *)
(* [t |-> "int", v], [t |-> "float", cs] (a float with two decimals, held  *)
(* in hundredths), [t |-> "time", ms] (a reading of time.time()),          *)
(* [t |-> "str", v] (v a sequence of characters),                          *)
(* [t |-> "list", v] (a sequence of values), [t |-> "dict", v] (a function *)
(* from keys to values), [t |-> "obj", str, repr] (an object of a type the  *)
(* JSON encoder does not know, with its str() and its repr()).  Times are  *)
(* integers in milliseconds.                                               *)
(***************************************************************************)
EXTENDS Integers, Sequences, FiniteSets, TLC

VARIABLES
    sock,               \* self._sock: "None" or "socket"
    start_time,         \* self._start_time: PyNone or a time
    play_start_time,    \* self._play_start_time: PyNone or a time
    task_start_times,   \* self._task_start_times: task uuid -> time
    constructed,        \* how __init__ went: "unset", "connect_failed", "connected"
    connects,           \* number of socket.connect calls made so far
    clock,              \* the latest reading of the wall clock, in ms
    hook,               \* the hook the engine invoked last
    arg,                \* the task uuid the last hook was about, or "-"
    outcome,            \* how the last hook ended: "returned" or "raised"
    event,              \* what the last hook handed to _send, or NoEvent
    written,            \* the sendall calls of the last hook, in order
    prior_failure,      \* a sendall of an earlier hook has failed
    last_started,       \* task uuid -> clock of the latest task-start hook for it
    restarted,          \* the task uuids a task-start hook was invoked for twice
    san_in,             \* the argument of _sanitize_result
    san_out,            \* its return value
    san_done,           \* whether _sanitize_result has run
    payload_kept,       \* no hook so far has changed a mapping of the engine
    pc,                 \* thread -> where the thread is: "idle" or "sendall"
    pending,            \* thread -> the bytes its sendall has still to send
    stream,             \* the bytes the socket has accepted so far, in order
    unread,             \* how many of them the consumer has not read yet
    peer_closed,        \* the consumer has closed its end
    calls               \* the number of _send calls that reached sendall

\* the socket as the kernel and the threads of the engine see it
wire_vars == <<pc, pending, stream, unread, peer_closed, calls>>

vars == <<sock, start_time, play_start_time, task_start_times, constructed,
          connects, clock, hook, arg, outcome, event, written,
          prior_failure, last_started, restarted, san_in, san_out, san_done,
          payload_kept, pc, pending, stream, unread, peer_closed, calls>>

--------------------------------------------------------------------------
(* Bounds of the model *)

MaxTicks == 1
TickMs == 2343
MaxKeys == 2
MaxCalls == 3
MsgBytes == 3
BufCap == 2

(* Program constants *)

MaxStrLen == 5000
MaxReprLen == 10000

\* the threads of the engine that invoke hooks
Threads == {"main", "results"}

--------------------------------------------------------------------------
(* Python values *)

PyNone == [t |-> "none"]
PyBool(b) == [t |-> "bool", v |-> b]
PyInt(n) == [t |-> "int", v |-> n]
PyFloat2(cs) == [t |-> "float", cs |-> cs]
PyStr(s) == [t |-> "str", v |-> s]
PyList(s) == [t |-> "list", v |-> s]
PyDict(f) == [t |-> "dict", v |-> f]

EmptyMap == [k \in {} |-> PyNone]

NoEvent == [type |-> "-"]

\* a string of n characters whose content depends on the position
Chars(n) == [i \in 1..n |-> IF i % 3 = 0 THEN "a" ELSE IF i % 3 = 1 THEN "b" ELSE "c"]

\* bool(x): Python truthiness
PyTruthy(x) ==
    CASE x.t = "none" -> FALSE
      [] x.t = "bool" -> x.v
      [] x.t = "int" -> x.v # 0
      [] x.t = "float" -> x.cs # 0
      [] x.t = "time" -> x.ms # 0
      [] x.t = "str" -> Len(x.v) > 0
      [] x.t = "obj" -> TRUE
      [] x.t = "list" -> Len(x.v) > 0
      [] x.t = "dict" -> DOMAIN x.v # {}

\* d.get(k, default) on a dict d
PyGet(d, k, default) == IF k \in DOMAIN d.v THEN d.v[k] ELSE default

RECURSIVE DigitsLen(_)
DigitsLen(n) == IF n < 0 THEN 1 + DigitsLen(-n)
                ELSE IF n < 10 THEN 1 ELSE 1 + DigitsLen(n \div 10)

\* len(str(x)), len(repr(x)): strings hold no quote, backslash or control
\* character other than in the literal markers, so repr adds two quotes
RECURSIVE ReprLen(_), ReprLenSeq(_), ReprLenItems(_, _)
ReprLen(x) ==
    CASE x.t = "none" -> 4
      [] x.t = "bool" -> IF x.v THEN 4 ELSE 5
      [] x.t = "int" -> DigitsLen(x.v)
      [] x.t = "float" -> DigitsLen(x.cs \div 100) + 2
      [] x.t = "str" -> Len(x.v) + 2
      [] x.t = "obj" -> Len(x.repr)
      [] x.t = "list" ->
           2 + ReprLenSeq(x.v) + (IF Len(x.v) > 0 THEN 2 * (Len(x.v) - 1) ELSE 0)
      [] x.t = "dict" ->
           2 + ReprLenItems(x.v, DOMAIN x.v)
             + (IF DOMAIN x.v # {} THEN 2 * (Cardinality(DOMAIN x.v) - 1) ELSE 0)
ReprLenSeq(s) == IF s = <<>> THEN 0 ELSE ReprLen(Head(s)) + ReprLenSeq(Tail(s))
ReprLenItems(f, keys) ==
    IF keys = {} THEN 0
    ELSE LET k == CHOOSE x \in keys : TRUE
         IN  (Len(k) + 2) + 2 + ReprLen(f[k]) + ReprLenItems(f, keys \ {k})

--------------------------------------------------------------------------
(* _sanitize_result *)

omit_keys == {"ansible_facts", "ansible_env"}

TruncMarker == <<"\n", ".", ".", ".", " ", "[",
                 "t", "r", "u", "n", "c", "a", "t", "e", "d", "]">>

OmittedMarker == <<"[", "l", "a", "r", "g", "e", " ", "d", "a", "t", "a", " ",
                   "o", "m", "i", "t", "t", "e", "d", "]">>

\* value[:n] cut one character short
SliceShort(s, n) == IF Len(s) <= n THEN s ELSE SubSeq(s, 1, n - 1)

\* value[:n]
Slice(s, n) == IF Len(s) <= n THEN s ELSE SubSeq(s, 1, n)

\* the elif chain with >= in place of > in both length tests
SanitizeValueInclusive(value) ==
    IF value.t = "str" /\ Len(value.v) >= MaxStrLen
    THEN PyStr(SubSeq(value.v, 1, MaxStrLen) \o TruncMarker)
    ELSE IF value.t \in {"dict", "list"} /\ ReprLen(value) >= MaxReprLen
    THEN PyStr(OmittedMarker)
    ELSE value

\* the elif chain of the loop body, for a key that is not omitted
SanitizeValue(value) ==
    IF value.t = "str" /\ Len(value.v) > MaxStrLen
    THEN PyStr(Slice(value.v, MaxStrLen) \o TruncMarker)
    ELSE IF value.t \in {"dict", "list"} /\ ReprLen(value) > MaxReprLen
    THEN PyStr(OmittedMarker)
    ELSE value

\* one pass of the for loop over result.items()
RECURSIVE SanitizeLoop(_, _, _)
SanitizeLoop(result, keys, sanitized) ==
    IF keys = {} THEN sanitized
    ELSE LET key == CHOOSE k \in keys : TRUE
             next == IF key \in omit_keys
                     THEN sanitized
                     ELSE [k \in DOMAIN sanitized \cup {key} |->
                             IF k = key THEN SanitizeValue(result[key])
                             ELSE sanitized[k]]
         IN  SanitizeLoop(result, keys \ {key}, next)

_sanitize_result(result) ==
    IF result.t # "dict" THEN result
    ELSE PyDict(SanitizeLoop(result.v, DOMAIN result.v, EmptyMap))

--------------------------------------------------------------------------
(* Inputs of _sanitize_result, and the specification that applies it *)

SanKeys == {"ansible_facts", "ansible_env", "msg", "stdout"}

StrOk == PyStr(<<"o", "k">>)
StrAtLimit == PyStr(Chars(MaxStrLen))
StrOverLimit == PyStr(Chars(MaxStrLen + 1))
Str6000 == PyStr(Chars(MaxStrLen + 1000))
\* str(['b...']) has the string's length plus 4 characters
ListAtLimit == PyList(<<PyStr(Chars(MaxReprLen - 4))>>)
ListOverLimit == PyList(<<PyStr(Chars(MaxReprLen - 3))>>)
\* str({'k': 'b...'}) has the string's length plus 9 characters
DictOverLimit == PyDict([k \in {"k"} |-> PyStr(Chars(MaxReprLen - 8))])
SmallList == PyList(<<PyInt(1), StrOk>>)

SanValues == {StrOk, StrAtLimit, StrOverLimit, Str6000, ListAtLimit,
              ListOverLimit, DictOverLimit, SmallList, PyBool(TRUE)}

SanDicts ==
    UNION {[ks -> SanValues] : ks \in {s \in SUBSET SanKeys : Cardinality(s) <= MaxKeys}}

SanInputs == {PyDict(f) : f \in SanDicts} \cup {PyNone, Str6000, ListOverLimit}

InitSan ==
    /\ sock = "None"
    /\ start_time = PyNone
    /\ play_start_time = PyNone
    /\ task_start_times = EmptyMap
    /\ constructed = "unset"
    /\ connects = 0
    /\ clock = TickMs
    /\ hook = "-"
    /\ arg = "-"
    /\ outcome = "returned"
    /\ event = NoEvent
    /\ written = <<>>
    /\ prior_failure = FALSE
    /\ last_started = EmptyMap
    /\ restarted = {}
    /\ san_in \in SanInputs
    /\ san_out = PyNone
    /\ san_done = FALSE
    /\ payload_kept = TRUE
    /\ pc = [th \in Threads |-> "idle"]
    /\ pending = [th \in Threads |-> <<>>]
    /\ stream = <<>>
    /\ unread = 0
    /\ peer_closed = FALSE
    /\ calls = 0

ApplySanitize ==
    /\ ~san_done
    /\ san_out' = _sanitize_result(san_in)
    /\ san_done' = TRUE
    /\ UNCHANGED <<sock, start_time, play_start_time, task_start_times,
                   constructed, connects, clock, hook, arg, outcome,
                   event, written, prior_failure, last_started, restarted, san_in,
                   payload_kept>>
    /\ UNCHANGED wire_vars

NextSan == ApplySanitize

SpecSan == InitSan /\ [][NextSan]_vars

--------------------------------------------------------------------------
(* Claims about _sanitize_result, checked under SpecSan *)

\* The reference function of C4: a non-mapping is returned as it is; in a
\* mapping the keys ansible_facts and ansible_env are dropped, a string of more
\* than 5000 characters becomes its first 5000 characters and the truncation
\* marker, a dict or list whose string form has more than 10000 characters
\* becomes '[large data omitted]', and any other value is kept.
RefSanitize(x) ==
    IF x.t # "dict" THEN x
    ELSE PyDict([k \in {j \in DOMAIN x.v : j # "ansible_facts" /\ j # "ansible_env"} |->
                   LET val == x.v[k]
                   IN  IF val.t = "str" /\ Len(val.v) > 5000
                       THEN PyStr(SubSeq(val.v, 1, 5000)
                                  \o <<"\n", ".", ".", ".", " ", "[", "t", "r", "u",
                                       "n", "c", "a", "t", "e", "d", "]">>)
                       ELSE IF val.t \in {"dict", "list"} /\ ReprLen(val) > 10000
                       THEN PyStr(<<"[", "l", "a", "r", "g", "e", " ", "d", "a", "t",
                                    "a", " ", "o", "m", "i", "t", "t", "e", "d", "]">>)
                       ELSE val])

\* C4: _sanitize_result equals the reference function on every input, and its
\* output has no key that the input lacks.
C4_SanitizeEqualsReference ==
    san_done =>
        /\ san_out = RefSanitize(san_in)
        /\ san_in.t = "dict" =>
              /\ san_out.t = "dict"
              /\ DOMAIN san_out.v \subseteq DOMAIN san_in.v

\* C4 witness: a mapping with an omitted key and an oversized list has been
\* sanitized
C4_Witness ==
    /\ san_done
    /\ san_in.t = "dict"
    /\ DOMAIN san_in.v = {"ansible_env", "stdout"}
    /\ san_in.v["stdout"] = ListOverLimit
    /\ DOMAIN san_out.v = {"stdout"}

\* the kept fields of the input that hold a string of exactly 6000 characters
Fields6000 ==
    IF san_in.t # "dict" THEN {}
    ELSE {k \in DOMAIN san_in.v :
            /\ k \notin {"ansible_facts", "ansible_env"}
            /\ san_in.v[k].t = "str"
            /\ Len(san_in.v[k].v) = 6000}

\* the sanitized field k is the first 5000 characters of the input field
\* followed by the marker "\n... [truncated]"
TruncatedField(k) ==
    /\ san_out.v[k].t = "str"
    /\ Len(san_out.v[k].v) > 5000
    /\ SubSeq(san_out.v[k].v, 1, 5000) = SubSeq(san_in.v[k].v, 1, 5000)
    /\ SubSeq(san_out.v[k].v, 5001, Len(san_out.v[k].v))
         = <<"\n", ".", ".", ".", " ", "[", "t", "r", "u", "n", "c", "a", "t", "e", "d", "]">>

\* C5 as amended: a kept field holding a 6000-character string is sanitized to
\* its first 5000 characters followed by the marker, 5016 characters in all
\* (the marker has 16 characters).
C5_TruncatedLength5016 ==
    san_done =>
        \A k \in Fields6000 : TruncatedField(k) /\ Len(san_out.v[k].v) = 5016

\* C5 as stated: the sanitized field has 5017 characters in all.
C5_TruncatedLength5017 ==
    san_done =>
        \A k \in Fields6000 : TruncatedField(k) /\ Len(san_out.v[k].v) = 5017

\* C5 witness: a field msg of 6000 characters has been sanitized
C5_Witness ==
    /\ san_done
    /\ "msg" \in Fields6000
    /\ "msg" \in DOMAIN san_out.v

--------------------------------------------------------------------------
(* The objects the engine hands to the hooks.  An object is a record whose *)
(* attrs field names the attributes it has; reading an attribute it lacks  *)
(* raises AttributeError.                                                  *)

TaskIds == {"abc", "def"}

UuidStr == [id \in TaskIds |->
              IF id = "abc" THEN PyStr(<<"a", "b", "c">>) ELSE PyStr(<<"d", "e", "f">>)]

HostName == PyStr(<<"w", "e", "b", "1">>)
TaskName == PyStr(<<"p", "i", "n", "g">>)
TaskAction == PyStr(<<"s", "h", "e", "l", "l">>)
TaskArgs == PyDict([k \in {"cmd"} |-> PyStr(<<"l", "s">>)])
TaskPath == PyStr(<<"s", ".", "y", "m", "l", ":", "3">>)
PlayName == PyStr(<<"a", "l", "l">>)
PlayUuid == PyStr(<<"p", "1">>)
IncludeFile == PyStr(<<"i", ".", "y", "m", "l">>)
PlaybookFile == <<"p", "b", "/", "s", ".", "y", "m", "l">>
ItemValue == PyStr(<<"x">>)
LoopVar == PyStr(<<"p", "k", "g">>)
DiffValue == PyDict([k \in {"before", "after"} |-> IF k = "before" THEN PyStr(<<"a">>) ELSE PyStr(<<"b">>)])
FactsValue == PyDict([k \in {"os"} |-> PyStr(<<"l", "i", "n", "u", "x">>)])
\* the per-item results of a loop, one of them with collected facts
LoopResults == PyList(<<PyDict([k \in {"ansible_facts"} |-> FactsValue])>>)
\* a string of two lines
StrTwoLines == PyStr(<<"a", "\n", "b">>)
\* a datetime, which the JSON encoder does not know
StartedAt == [t |-> "obj", str |-> <<"2", "0", "2", "6">>,
              repr |-> <<"d", "t", "(", "2", "0", "2", "6", ")">>]

\* result._result: a full result, a minimal one, and one that is no mapping
FullResult ==
    PyDict([k \in {"changed", "msg", "ansible_facts", "item", "ansible_loop_var",
                   "diff", "retries", "attempts", "start", "results"} |->
              CASE k = "changed" -> PyBool(TRUE)
                [] k = "msg" -> StrTwoLines
                [] k = "start" -> StartedAt
                [] k = "results" -> LoopResults
                [] k = "ansible_facts" -> FactsValue
                [] k = "item" -> ItemValue
                [] k = "ansible_loop_var" -> LoopVar
                [] k = "diff" -> DiffValue
                [] k = "retries" -> PyInt(3)
                [] k = "attempts" -> PyInt(1)])
MinimalResult == PyDict([k \in {"msg", "diff"} |-> IF k = "msg" THEN StrOk ELSE PyList(<<>>)])

TaskAbc == [uuid |-> "abc", attrs |-> {"_uuid", "action", "args"}]
TaskDef == [uuid |-> "def", attrs |-> {"_uuid", "action"}]
TaskNoAction == [uuid |-> "abc", attrs |-> {"_uuid", "args"}]
TaskNoUuid == [uuid |-> "abc", attrs |-> {"action", "args"}]

Tasks == {TaskAbc, TaskDef}
BadTasks == {TaskNoAction, TaskNoUuid}

Results == {[task |-> TaskAbc, result |-> FullResult],
            [task |-> TaskDef, result |-> MinimalResult],
            [task |-> TaskAbc, result |-> PyNone],
            [task |-> TaskNoAction, result |-> FullResult]}

\* the results handed to v2_on_file_diff: also one without the key diff
NoDiffResult == PyDict([k \in {"msg"} |-> StrOk])
DiffResults == Results \cup {[task |-> TaskDef, result |-> NoDiffResult]}

Playbooks == {[file_name |-> PyStr(PlaybookFile)], [file_name |-> PyNone]}

Plays == {[attrs |-> {"_uuid", "hosts", "serial"}, hosts |-> PyList(<<HostName>>)],
          [attrs |-> {"_uuid", "hosts", "serial"}, hosts |-> HostName],
          [attrs |-> {"_uuid", "hosts"}, hosts |-> HostName]}

StatsObjs == {[attrs |-> {"processed"}, summary |-> [k \in {"ok", "changed"} |-> PyInt(2)]],
              [attrs |-> {}, summary |-> EmptyMap]}

Includes == {[attrs |-> {"_filename", "_hosts"}], [attrs |-> {"_filename"}]}

--------------------------------------------------------------------------
(* _send *)

\* the JSON text of a string, without its quotes: a quote, a backslash and a
\* newline are escaped
RECURSIVE JsonEscape(_)
JsonEscape(s) ==
    IF \A i \in DOMAIN s : s[i] \notin {"\n", "\"", "\\"} THEN s
    ELSE (CASE Head(s) = "\n" -> <<"\\", "n">>
            [] Head(s) = "\"" -> <<"\\", "\"">>
            [] Head(s) = "\\" -> <<"\\", "\\">>
            [] OTHER -> <<Head(s)>>) \o JsonEscape(Tail(s))

\* the values json.dumps(x, default=str) puts into the text: an object the
\* encoder does not know becomes its str(), and strings are escaped.  (The
\* engine's mappings have string keys and no value contains itself.)
RECURSIVE JsonEncode(_)
JsonEncode(x) ==
    CASE x.t = "obj" -> PyStr(JsonEscape(x.str))
      [] x.t = "str" -> PyStr(JsonEscape(x.v))
      [] x.t = "list" -> PyList([i \in DOMAIN x.v |-> JsonEncode(x.v[i])])
      [] x.t = "dict" -> PyDict([k \in DOMAIN x.v |-> JsonEncode(x.v[k])])
      [] OTHER -> x

\* datetime.utcnow().isoformat() + 'Z', the wall clock reading t of the hook
IsoZ(t) == [iso |-> t, suffix |-> "Z"]

\* an envelope with the keys of data merged into its top level
EnvelopeFlat(event_type, data, t) ==
    LET d == IF PyTruthy(data) THEN data.v ELSE EmptyMap
    IN  [k \in {"type", "timestamp"} \cup DOMAIN d |->
           IF k = "type" THEN event_type
           ELSE IF k = "timestamp" THEN IsoZ(t)
           ELSE JsonEncode(d[k])]

Envelope(event_type, data, t) ==
    [type |-> event_type,
     timestamp |-> IsoZ(t),
     data |-> JsonEncode(IF PyTruthy(data) THEN data ELSE PyDict(EmptyMap))]

\* _send that connects again when there is no socket
_send_reconnect(s, fails, event_type, data, t) ==
    [sock |-> "socket", connects |-> IF s = "None" THEN 1 ELSE 0,
     writes |-> <<[msg |-> Envelope(event_type, data, t), end |-> "\n",
                   delivered |-> ~fails]>>,
     raised |-> FALSE]

\* _send that gives the socket up when sendall fails
_send_close_on_error(s, fails, event_type, data, t) ==
    IF s = "None"
    THEN [sock |-> s, connects |-> 0, writes |-> <<>>, raised |-> FALSE]
    ELSE [sock |-> IF fails THEN "None" ELSE s, connects |-> 0,
          writes |-> <<[msg |-> Envelope(event_type, data, t), end |-> "\n",
                        delivered |-> ~fails]>>,
          raised |-> FALSE]

\* whether the value holds an object the JSON encoder does not know
RECURSIVE HasObj(_)
HasObj(x) ==
    CASE x.t = "obj" -> TRUE
      [] x.t = "list" -> \E i \in DOMAIN x.v : HasObj(x.v[i])
      [] x.t = "dict" -> \E k \in DOMAIN x.v : HasObj(x.v[k])
      [] OTHER -> FALSE

\* _send that leaves the newline out
_send_no_newline(s, fails, event_type, data, t) ==
    IF s = "None"
    THEN [sock |-> s, connects |-> 0, writes |-> <<>>, raised |-> FALSE]
    ELSE [sock |-> s, connects |-> 0,
          writes |-> <<[msg |-> Envelope(event_type, data, t), end |-> "",
                        delivered |-> ~fails]>>,
          raised |-> FALSE]

\* _send whose json.dumps has no default=str: the TypeError of an unknown
\* object is caught by the except clause, and nothing is written
_send_no_default(s, fails, event_type, data, t) ==
    IF s = "None" \/ HasObj(data)
    THEN [sock |-> s, connects |-> 0, writes |-> <<>>, raised |-> FALSE]
    ELSE [sock |-> s, connects |-> 0,
          writes |-> <<[msg |-> Envelope(event_type, data, t), end |-> "\n",
                        delivered |-> ~fails]>>,
          raised |-> FALSE]

\* the outcome of self._send(event_type, data) on socket handle s, at time t,
\* when the peer makes sendall fail or not: the handle afterwards, the
\* connect calls made, the sendall calls made, and whether _send raised
_send(s, fails, event_type, data, t) ==
    IF s = "None"
    THEN [sock |-> s, connects |-> 0, writes |-> <<>>, raised |-> FALSE]
    ELSE [sock |-> s, connects |-> 0,
          writes |-> <<[msg |-> Envelope(event_type, data, t), end |-> "\n",
                        delivered |-> ~fails]>>,
          raised |-> FALSE]

--------------------------------------------------------------------------
(* _host_result *)

\* round(x, 2) of x seconds given in ms, in hundredths (ties to even)
Round2(ms) ==
    LET q == ms \div 10
        r == ms % 10
    IN  IF r < 5 THEN q
        ELSE IF r > 5 THEN q + 1
        ELSE IF q % 2 = 0 THEN q ELSE q + 1

\* round(duration, 2) if duration else None
DurationField(known, elapsed) ==
    IF known /\ elapsed # 0 THEN PyFloat2(Round2(elapsed)) ELSE PyNone

HostResultRaises(result) ==
    \/ "_uuid" \notin result.task.attrs
    \/ "action" \notin result.task.attrs
    \/ result.result.t # "dict"

\* self._sanitize_result(result._result), tabulated over the mappings the
\* engine hands to the result hooks
SanitizedResults == [r \in {x.result : x \in Results} |-> _sanitize_result(r)]

_host_result(result, table, t) ==
    LET task_uuid == result.task.uuid
        known == task_uuid \in DOMAIN table
        elapsed == IF known THEN t - table[task_uuid] ELSE 0
    IN  [k \in {"host", "task", "task_uuid", "action", "changed", "duration", "result"} |->
           CASE k = "host" -> HostName
             [] k = "task" -> TaskName
             [] k = "task_uuid" -> UuidStr[task_uuid]
             [] k = "action" -> TaskAction
             [] k = "changed" -> PyGet(result.result, "changed", PyBool(FALSE))
             [] k = "duration" -> DurationField(known, elapsed)
             [] k = "result" -> SanitizedResults[result.result]]

--------------------------------------------------------------------------
(* The hooks *)

PyTime(t) == [t |-> "time", ms |-> t]

\* what time.time() can return next: the clock has stood still or has advanced
Times == {t \in {clock, clock + TickMs} : t <= TickMs * (MaxTicks + 1)}

\* whether sendall fails is a choice only where sendall is called: the hook
\* has not raised before _send and there is a socket
Fails(raises) == IF raises \/ sock = "None" THEN {FALSE} ELSE BOOLEAN

\* os.path.basename
Basename(path) ==
    LET slashes == {i \in 1..Len(path) : path[i] = "/"}
        last == CHOOSE i \in slashes : \A j \in slashes : j <= i
    IN  IF slashes = {} THEN path ELSE SubSeq(path, last + 1, Len(path))

\* the start recorded only when there is a socket
RecordStartIfConnected(table, task_uuid, t) ==
    IF sock = "None" THEN table
    ELSE [k \in DOMAIN table \cup {task_uuid} |-> IF k = task_uuid THEN t ELSE table[k]]

\* self._task_start_times[task_uuid] = time.time()
RecordStart(table, task_uuid, t) ==
    [k \in DOMAIN table \cup {task_uuid} |-> IF k = task_uuid THEN t ELSE table[k]]

\* The end of every hook: the data mapping has been built (or building it has
\* raised), and the hook calls self._send(event_type, data) and returns.
\* sendall fails or not (see Fails).  (ev and r are each bound once: the
\* event handed to _send and its outcome.)
Complete(h, id, t, raises, event_type, data) ==
    \E ev \in {IF raises THEN NoEvent ELSE [type |-> event_type, data |-> data]} :
    \E fails \in Fails(raises) :
    \E r \in {IF raises
               THEN [sock |-> sock, connects |-> 0, writes |-> <<>>, raised |-> TRUE]
               ELSE _send(sock, fails, ev.type, PyDict(ev.data), t)} :
        /\ hook' = h
        /\ arg' = id
        /\ clock' = t
        /\ outcome' = IF r.raised THEN "raised" ELSE "returned"
        /\ event' = ev
        /\ sock' = r.sock
        /\ connects' = connects + r.connects
        /\ written' = r.writes
        /\ prior_failure' = (prior_failure \/ \E i \in DOMAIN written : ~written[i].delivered)
        /\ UNCHANGED <<constructed, san_in, san_out, san_done>>
        /\ UNCHANGED wire_vars

v2_playbook_on_start ==
    \E t \in Times, playbook \in Playbooks :
        /\ start_time' = PyTime(t)
        /\ UNCHANGED <<play_start_time, task_start_times, last_started, restarted,
                       payload_kept>>
        /\ Complete("v2_playbook_on_start", "-", t,
                    playbook.file_name.t # "str", "playbook_start",
                    [k \in {"playbook", "path"} |->
                       IF k = "playbook" THEN PyStr(Basename(playbook.file_name.v))
                       ELSE playbook.file_name])

v2_playbook_on_play_start ==
    \E t \in Times, play \in Plays :
        /\ play_start_time' = PyTime(t)
        /\ UNCHANGED <<start_time, task_start_times, last_started, restarted,
                       payload_kept>>
        /\ Complete("v2_playbook_on_play_start", "-", t,
                    "serial" \notin play.attrs, "play_start",
                    [k \in {"name", "uuid", "hosts", "serial"} |->
                       CASE k = "name" -> PlayName
                         [] k = "uuid" -> PlayUuid
                         [] k = "hosts" -> IF play.hosts.t = "list" THEN play.hosts
                                           ELSE PyList(<<play.hosts>>)
                         [] k = "serial" -> PyInt(0)])

\* The two task-start hooks: record the start, then send task_start with
\* the data the hook builds.  track says whether the specification keeps
\* restarted up to date.
StartHook(h, task, t, data, track) ==
    LET has_uuid == "_uuid" \in task.attrs
    IN  /\ task_start_times' = IF has_uuid THEN RecordStart(task_start_times, task.uuid, t)
                               ELSE task_start_times
        /\ last_started' = IF has_uuid
                           THEN [k \in DOMAIN last_started \cup {task.uuid} |->
                                   IF k = task.uuid THEN t ELSE last_started[k]]
                           ELSE last_started
        /\ restarted' = IF track /\ has_uuid /\ task.uuid \in DOMAIN last_started
                        THEN restarted \cup {task.uuid} ELSE restarted
        /\ UNCHANGED <<start_time, play_start_time, payload_kept>>
        /\ Complete(h, IF has_uuid THEN task.uuid ELSE "-", t,
                    ~has_uuid \/ "action" \notin task.attrs, "task_start", data)

v2_playbook_on_task_start(track) ==
    \E t \in Times, task \in Tasks \cup BadTasks :
        StartHook("v2_playbook_on_task_start", task, t,
                  [k \in {"name", "uuid", "action", "args", "path", "is_handler"} |->
                     CASE k = "name" -> TaskName
                       [] k = "uuid" -> UuidStr[task.uuid]
                       [] k = "action" -> TaskAction
                       [] k = "args" -> IF "args" \in task.attrs THEN TaskArgs
                                        ELSE PyDict(EmptyMap)
                       [] k = "path" -> TaskPath
                       [] k = "is_handler" -> PyBool(FALSE)],
                  track)

v2_playbook_on_handler_task_start(track) ==
    \E t \in Times, task \in Tasks \cup BadTasks :
        StartHook("v2_playbook_on_handler_task_start", task, t,
                  [k \in {"name", "uuid", "action", "is_handler"} |->
                     CASE k = "name" -> TaskName
                       [] k = "uuid" -> UuidStr[task.uuid]
                       [] k = "action" -> TaskAction
                       [] k = "is_handler" -> PyBool(TRUE)],
                  track)

\* duration = time.time() - self._start_time if self._start_time else 0,
\* then round(duration, 2)
StatsDuration(t) ==
    IF PyTruthy(start_time)
    THEN PyFloat2(Round2(t - start_time.ms))
    ELSE PyInt(0)

v2_playbook_on_stats ==
    \E t \in Times, stats \in StatsObjs :
        /\ UNCHANGED <<start_time, play_start_time, task_start_times, last_started, restarted,
                       payload_kept>>
        /\ Complete("v2_playbook_on_stats", "-", t,
                    "processed" \notin stats.attrs, "playbook_complete",
                    [k \in {"stats", "duration"} |->
                       IF k = "duration" THEN StatsDuration(t)
                       ELSE PyDict([h \in {"web1"} |->
                              PyDict([c \in {"ok", "changed", "failures", "unreachable",
                                             "skipped", "rescued", "ignored"} |->
                                        PyGet(PyDict(stats.summary), c, PyInt(0))])])])

v2_playbook_on_include ==
    \E t \in Times, included_file \in Includes :
        /\ UNCHANGED <<start_time, play_start_time, task_start_times, last_started, restarted,
                       payload_kept>>
        /\ Complete("v2_playbook_on_include", "-", t,
                    "_hosts" \notin included_file.attrs, "include",
                    [k \in {"file", "hosts"} |->
                       IF k = "file" THEN IncludeFile ELSE PyList(<<HostName>>)])

v2_runner_on_start ==
    \E t \in Times, task \in Tasks \cup BadTasks :
        /\ UNCHANGED <<start_time, play_start_time, task_start_times, last_started, restarted,
                       payload_kept>>
        /\ Complete("v2_runner_on_start", IF "_uuid" \in task.attrs THEN task.uuid ELSE "-",
                    t, "_uuid" \notin task.attrs, "host_task_start",
                    [k \in {"host", "task", "task_uuid"} |->
                       CASE k = "host" -> HostName
                         [] k = "task" -> TaskName
                         [] k = "task_uuid" -> UuidStr[task.uuid]])

\* The mappings the stores of a result hook go to.  "engine" is the mapping
\* result._result, which the engine owns; "sanitized" is the mapping that
\* _sanitize_result creates (sanitized = {}) and stores the kept keys into;
\* "data" is the mapping that _host_result creates and returns, into which the
\* hook stores its own keys (data['item'] = ...).
SanitizedObject == "sanitized"

\* the hook storing its keys into the engine's mapping
DataObjectEngine == "engine"

DataObject == "data"

\* result._result after a result hook that has stored the keys of extra
EngineAfter(result, extra) ==
    LET san == IF SanitizedObject = "engine" /\ result.result.t = "dict"
               THEN _sanitize_result(result.result).v ELSE EmptyMap
        own == IF DataObject = "engine" THEN extra ELSE EmptyMap
    IN  IF HostResultRaises(result) THEN result.result
        ELSE PyDict([k \in DOMAIN result.result.v \cup DOMAIN san \cup DOMAIN own |->
                       IF k \in DOMAIN own THEN own[k]
                       ELSE IF k \in DOMAIN san THEN san[k]
                       ELSE result.result.v[k]])

\* A hook that sends _host_result(result) with the keys of extra added
RunnerHook(h, event_type, t, result, extra) ==
    /\ UNCHANGED <<start_time, play_start_time, task_start_times, last_started, restarted>>
    /\ payload_kept' = (payload_kept /\ EngineAfter(result, extra) = result.result)
    /\ Complete(h, IF "_uuid" \in result.task.attrs THEN result.task.uuid ELSE "-",
                t, HostResultRaises(result), event_type,
                LET data == _host_result(result, task_start_times, t)
                IN  [k \in DOMAIN data \cup DOMAIN extra |->
                       IF k \in DOMAIN extra THEN extra[k] ELSE data[k]])

v2_runner_on_ok ==
    \E t \in Times, result \in Results :
        RunnerHook("v2_runner_on_ok", "host_ok", t, result, EmptyMap)

v2_runner_on_failed ==
    \E t \in Times, result \in Results, ignore_errors \in BOOLEAN :
        RunnerHook("v2_runner_on_failed", "host_failed", t, result,
                   [k \in {"ignore_errors"} |-> PyBool(ignore_errors)])

v2_runner_on_skipped ==
    \E t \in Times, result \in Results :
        RunnerHook("v2_runner_on_skipped", "host_skipped", t, result, EmptyMap)

v2_runner_on_unreachable ==
    \E t \in Times, result \in Results :
        RunnerHook("v2_runner_on_unreachable", "host_unreachable", t, result, EmptyMap)

v2_runner_item_on_ok ==
    \E t \in Times, result \in Results :
        RunnerHook("v2_runner_item_on_ok", "item_ok", t, result,
                   [k \in {"item", "item_label"} |->
                      IF k = "item" THEN PyGet(result.result, "item", PyStr(<<>>))
                      ELSE PyGet(result.result, "ansible_loop_var",
                                 PyStr(<<"i", "t", "e", "m">>))])

v2_runner_item_on_failed ==
    \E t \in Times, result \in Results :
        RunnerHook("v2_runner_item_on_failed", "item_failed", t, result,
                   [k \in {"item"} |-> PyGet(result.result, "item", PyStr(<<>>))])

v2_runner_item_on_skipped ==
    \E t \in Times, result \in Results :
        RunnerHook("v2_runner_item_on_skipped", "item_skipped", t, result,
                   [k \in {"item"} |-> PyGet(result.result, "item", PyStr(<<>>))])

v2_runner_retry ==
    \E t \in Times, result \in Results :
        RunnerHook("v2_runner_retry", "host_retry", t, result,
                   [k \in {"retries", "attempts"} |->
                      IF k = "retries" THEN PyGet(result.result, "retries", PyInt(0))
                      ELSE PyGet(result.result, "attempts", PyInt(0))])

\* v2_on_file_diff without the test of result._result.get('diff')
v2_on_file_diff_always ==
    \E t \in Times, result \in DiffResults :
        /\ UNCHANGED <<start_time, play_start_time, task_start_times, last_started, restarted,
                       payload_kept>>
        /\ Complete("v2_on_file_diff", "-", t, result.result.t # "dict", "file_diff",
                    [k \in {"host", "task", "diff"} |->
                       CASE k = "host" -> HostName
                         [] k = "task" -> TaskName
                         [] k = "diff" -> PyGet(result.result, "diff", PyNone)])

v2_on_file_diff ==
    \E t \in Times, result \in DiffResults :
        /\ UNCHANGED <<start_time, play_start_time, task_start_times, last_started, restarted,
                       payload_kept>>
        /\ IF result.result.t = "dict" /\ ~PyTruthy(PyGet(result.result, "diff", PyNone))
           THEN \* nothing to send: the hook returns
                /\ hook' = "v2_on_file_diff"
                /\ arg' = "-"
                /\ clock' = t
                /\ outcome' = "returned"
                /\ event' = NoEvent
                /\ written' = <<>>
                /\ prior_failure' = (prior_failure
                                     \/ \E i \in DOMAIN written : ~written[i].delivered)
                /\ UNCHANGED <<sock, connects, constructed, san_in, san_out, san_done>>
                /\ UNCHANGED wire_vars
           ELSE Complete("v2_on_file_diff", "-", t, result.result.t # "dict", "file_diff",
                         [k \in {"host", "task", "diff"} |->
                            CASE k = "host" -> HostName
                              [] k = "task" -> TaskName
                              [] k = "diff" -> PyGet(result.result, "diff", PyNone)])

--------------------------------------------------------------------------
(* __init__, and the specification *)

Init ==
    /\ constructed \in {"unset", "connect_failed", "connected"}
    /\ sock = IF constructed = "connected" THEN "socket" ELSE "None"
    /\ connects = IF constructed = "unset" THEN 0 ELSE 1
    /\ start_time = PyNone
    /\ play_start_time = PyNone
    /\ task_start_times = EmptyMap
    /\ clock = TickMs
    /\ hook = "-"
    /\ arg = "-"
    /\ outcome = "returned"
    /\ event = NoEvent
    /\ written = <<>>
    /\ prior_failure = FALSE
    /\ last_started = EmptyMap
    /\ restarted = {}
    /\ san_in = PyNone
    /\ san_out = PyNone
    /\ san_done = FALSE
    /\ payload_kept = TRUE
    /\ pc = [th \in Threads |-> "idle"]
    /\ pending = [th \in Threads |-> <<>>]
    /\ stream = <<>>
    /\ unread = 0
    /\ peer_closed = FALSE
    /\ calls = 0

Next ==
    \/ v2_playbook_on_start
    \/ v2_playbook_on_play_start
    \/ v2_playbook_on_task_start(FALSE)
    \/ v2_playbook_on_handler_task_start(FALSE)
    \/ v2_playbook_on_stats
    \/ v2_playbook_on_include
    \/ v2_runner_on_start
    \/ v2_runner_on_ok
    \/ v2_runner_on_failed
    \/ v2_runner_on_skipped
    \/ v2_runner_on_unreachable
    \/ v2_runner_item_on_ok
    \/ v2_runner_item_on_failed
    \/ v2_runner_item_on_skipped
    \/ v2_runner_retry
    \/ v2_on_file_diff

Spec == Init /\ [][Next]_vars

\* The hooks that write or read the timing table, with restarted kept up to date
NextTiming ==
    \/ v2_playbook_on_task_start(TRUE)
    \/ v2_playbook_on_handler_task_start(TRUE)
    \/ v2_runner_on_ok
    \/ v2_runner_on_failed
    \/ v2_runner_on_skipped
    \/ v2_runner_on_unreachable
    \/ v2_runner_item_on_ok
    \/ v2_runner_item_on_failed
    \/ v2_runner_item_on_skipped
    \/ v2_runner_retry

SpecTiming == Init /\ [][NextTiming]_vars

--------------------------------------------------------------------------
(* The socket write, step by step.  sendall hands the bytes to the kernel  *)
(* in one or more send() calls, each of which takes what the socket buffer *)
(* has room for and blocks while there is none; the interpreter lets       *)
(* another thread run while a thread is inside send().  The hook is        *)
(* v2_playbook_on_task_start; every byte is tagged with the sendall call   *)
(* it belongs to and its position in the line, the last position being the *)
(* newline.                                                                *)

\* the variables the steps below leave alone
hook_vars == <<start_time, play_start_time, constructed, connects, hook, arg, outcome,
               event, written, prior_failure, restarted, san_in, san_out, san_done,
               payload_kept, sock>>

\* msg.encode('utf-8') of the envelope built by sendall call number n
Bytes(n) == [k \in 1..MsgBytes |-> [call |-> n, pos |-> k]]

\* Thread th runs v2_playbook_on_task_start up to the call of sendall: it
\* stores the start time, builds the line and calls sendall.  The store into
\* the dict is one step of the interpreter.  When the engine invokes its
\* hooks one after the other (sequential), no other hook is running.
TaskStartCall(th, sequential) ==
    /\ pc[th] = "idle"
    /\ sequential => \A o \in Threads : pc[o] = "idle"
    /\ sock = "socket"
    /\ calls < MaxCalls
    /\ \E t \in Times, task \in Tasks :
          /\ clock' = t
          /\ task_start_times' = RecordStart(task_start_times, task.uuid, t)
          /\ last_started' = [k \in DOMAIN last_started \cup {task.uuid} |->
                                IF k = task.uuid THEN t ELSE last_started[k]]
    /\ calls' = calls + 1
    /\ pending' = [pending EXCEPT ![th] = Bytes(calls + 1)]
    /\ pc' = [pc EXCEPT ![th] = "sendall"]
    /\ UNCHANGED <<stream, unread, peer_closed>>
    /\ UNCHANGED hook_vars

\* a single send() in place of sendall: what the socket buffer has no room
\* for is not sent
SendOnce(th) ==
    /\ pc[th] = "sendall"
    /\ pending[th] # <<>>
    /\ ~peer_closed
    /\ unread < BufCap
    /\ \E n \in 1..Len(pending[th]) :
          /\ n <= BufCap - unread
          /\ stream' = stream \o SubSeq(pending[th], 1, n)
          /\ unread' = unread + n
          /\ pending' = [pending EXCEPT ![th] = <<>>]
    /\ UNCHANGED <<pc, peer_closed, calls, clock, task_start_times, last_started>>
    /\ UNCHANGED hook_vars

\* One send() of the loop of sendall: the kernel takes the first n bytes
\* still to send, as many as the socket buffer has room for, and the loop
\* goes on with the rest.
Send(th) ==
    /\ pc[th] = "sendall"
    /\ pending[th] # <<>>
    /\ ~peer_closed
    /\ unread < BufCap
    /\ \E n \in 1..Len(pending[th]) :
          /\ n <= BufCap - unread
          /\ stream' = stream \o SubSeq(pending[th], 1, n)
          /\ unread' = unread + n
          /\ pending' = [pending EXCEPT ![th] = SubSeq(pending[th], n + 1, Len(pending[th]))]
    /\ UNCHANGED <<pc, peer_closed, calls, clock, task_start_times, last_started>>
    /\ UNCHANGED hook_vars

\* send() raises because the consumer has closed its end: the except clause
\* of _send drops what is left of the event, and the hook returns
SendRaises(th) ==
    /\ pc[th] = "sendall"
    /\ pending[th] # <<>>
    /\ peer_closed
    /\ pending' = [pending EXCEPT ![th] = <<>>]
    /\ pc' = [pc EXCEPT ![th] = "idle"]
    /\ UNCHANGED <<stream, unread, peer_closed, calls, clock, task_start_times,
                   last_started>>
    /\ UNCHANGED hook_vars

\* sendall has sent every byte: _send and the hook return
SendallReturn(th) ==
    /\ pc[th] = "sendall"
    /\ pending[th] = <<>>
    /\ pc' = [pc EXCEPT ![th] = "idle"]
    /\ UNCHANGED <<pending, stream, unread, peer_closed, calls, clock,
                   task_start_times, last_started>>
    /\ UNCHANGED hook_vars

\* the consumer reads a byte, which makes room in the socket buffer
ConsumerRead ==
    /\ ~peer_closed
    /\ unread > 0
    /\ unread' = unread - 1
    /\ UNCHANGED <<pc, pending, stream, peer_closed, calls, clock, task_start_times,
                   last_started>>
    /\ UNCHANGED hook_vars

\* the consumer closes its end
ConsumerClose ==
    /\ ~peer_closed
    /\ peer_closed' = TRUE
    /\ UNCHANGED <<pc, pending, stream, unread, calls, clock, task_start_times,
                   last_started>>
    /\ UNCHANGED hook_vars

\* after construction with a socket connected
InitWire == Init /\ constructed = "connected"

\* hooks invoked from several threads at once
NextWire ==
    \/ \E th \in Threads : TaskStartCall(th, FALSE)
    \/ \E th \in Threads : Send(th)
    \/ \E th \in Threads : SendRaises(th)
    \/ \E th \in Threads : SendallReturn(th)
    \/ ConsumerRead
    \/ ConsumerClose

SpecWire == InitWire /\ [][NextWire]_vars

\* hooks invoked one after the other
NextWireSeq ==
    \/ \E th \in Threads : TaskStartCall(th, TRUE)
    \/ \E th \in Threads : Send(th)
    \/ \E th \in Threads : SendRaises(th)
    \/ \E th \in Threads : SendallReturn(th)
    \/ ConsumerRead
    \/ ConsumerClose

SpecWireSeq == InitWire /\ [][NextWireSeq]_vars

\* A thread inside sendall takes its next step if that step stays possible:
\* the interpreter and the kernel schedule it.  Nothing makes the consumer
\* read.
SpecWireSeqFair ==
    /\ SpecWireSeq
    /\ \A th \in Threads :
          WF_vars(Send(th)) /\ WF_vars(SendRaises(th)) /\ WF_vars(SendallReturn(th))

\* the same, with a consumer that goes on reading
SpecWireSeqReading == SpecWireSeqFair /\ WF_vars(ConsumerRead)

--------------------------------------------------------------------------
(* Claims about the socket write, checked under the specifications above *)

AllIdle == \A th \in Threads : pc[th] = "idle"

\* byte number i of the lines of the sendall calls 1, 2, ... put end to end
ByteInCallOrder(i) == [call |-> ((i - 1) \div MsgBytes) + 1, pos |-> ((i - 1) % MsgBytes) + 1]

\* C17: when hooks are invoked one after the other, the bytes the socket has
\* accepted are at every moment a prefix of the lines of the sendall calls in
\* the order of the calls; when a hook has returned nothing of it is left to
\* send, and unless the consumer has closed its end every line up to the one
\* of the last call is on the socket whole.
C17_WriteOrderIsCallOrder ==
    /\ \A i \in DOMAIN stream : stream[i] = ByteInCallOrder(i)
    /\ AllIdle =>
          /\ \A th \in Threads : pending[th] = <<>>
          /\ ~peer_closed => Len(stream) = calls * MsgBytes

\* C17 witness: three hooks have returned one after the other and the consumer
\* has read all of the three lines
C17_Witness ==
    /\ AllIdle
    /\ ~peer_closed
    /\ calls = 3
    /\ unread = 0
    /\ Len(stream) = 3 * MsgBytes
    /\ stream[Len(stream)] = [call |-> 3, pos |-> MsgBytes]

\* every line on the socket is the bytes of one sendall call, in order and
\* with nothing in between
FramingIntact ==
    /\ stream # <<>> => stream[1].pos = 1
    /\ \A i \in 1..(Len(stream) - 1) :
          IF stream[i].pos = MsgBytes
          THEN stream[i + 1].pos = 1
          ELSE stream[i + 1] = [call |-> stream[i].call, pos |-> stream[i].pos + 1]

\* C18: when hooks are invoked from several threads at once, the bytes of two
\* envelopes never interleave on the socket, and the timing table holds the
\* latest start of every task a start hook was invoked for.
C18_FramingIntactNoStartLost ==
    /\ FramingIntact
    /\ task_start_times = last_started

\* the part of C18 that is about the timing table alone
C18_NoStartLost == task_start_times = last_started

\* C19: a thread that is inside sendall eventually returns from its hook,
\* whether the consumer reads or not.
C19_SendReturns ==
    \A th \in Threads : (pc[th] = "sendall") ~> (pc[th] = "idle")

--------------------------------------------------------------------------
(* Claims about the connection, checked under Spec *)

EventKinds == {"playbook_start", "play_start", "task_start", "host_task_start",
               "host_ok", "host_failed", "host_skipped", "host_unreachable",
               "item_ok", "item_failed", "item_skipped", "host_retry",
               "file_diff", "include", "playbook_complete"}

\* the kinds of the events built by _host_result
ResultKinds == {"host_ok", "host_failed", "host_skipped", "host_unreachable",
                "item_ok", "item_failed", "item_skipped", "host_retry"}

ResultHooks == {"v2_runner_on_ok", "v2_runner_on_failed", "v2_runner_on_skipped",
                "v2_runner_on_unreachable", "v2_runner_item_on_ok",
                "v2_runner_item_on_failed", "v2_runner_item_on_skipped",
                "v2_runner_retry"}

\* the last hook built a host result event
ResultEvent == event # NoEvent /\ event.type \in ResultKinds

\* a sendall of the last hook has failed
FailedNow == \E i \in DOMAIN written : ~written[i].delivered

\* C1: when ANSIBLE_ENV_SOCKET was unset or the connect attempt failed, then
\* after any sequence of hooks there is no socket, no further connect has
\* been made, nothing has been written, and every _send has returned.
C1_DisabledForever ==
    constructed # "connected" =>
        /\ sock = "None"
        /\ connects = (IF constructed = "unset" THEN 0 ELSE 1)
        /\ written = <<>>
        /\ event # NoEvent => outcome = "returned"

\* C1 witness: after a failed connect a hook has handed an event to _send
C1_Witness ==
    /\ constructed = "connect_failed"
    /\ event # NoEvent
    /\ event.type = "host_ok"
    /\ outcome = "returned"

\* C2: when connected, once a sendall has failed (in the last hook or in an
\* earlier one) the socket handle is still there, no connect has been made
\* again, and every hook that reaches _send makes exactly one sendall and
\* returns.
C2_FailedWriteDropsOneEvent ==
    (constructed = "connected" /\ (FailedNow \/ prior_failure)) =>
        /\ sock = "socket"
        /\ connects = 1
        /\ event # NoEvent => (Len(written) = 1 /\ outcome = "returned")
        /\ event = NoEvent => written = <<>>

\* C2 witness: after a failed sendall a later hook has written its event
C2_Witness ==
    /\ constructed = "connected"
    /\ prior_failure
    /\ Len(written) = 1
    /\ written[1].delivered

\* C3: no hook raises, whatever the engine hands to it.
C3_NoHookRaises == outcome # "raised"

\* C10: every envelope written has exactly the keys type, timestamp and data,
\* and its type is one of the fixed kinds.
C10_EnvelopeShape ==
    \A i \in DOMAIN written :
        /\ DOMAIN written[i].msg = {"type", "timestamp", "data"}
        /\ written[i].msg.type \in EventKinds

\* C10 witness: a file_diff envelope has been written
C10_Witness ==
    /\ written # <<>>
    /\ written[1].msg.type = "file_diff"

\* whether a string of the value holds a raw newline
RECURSIVE HasRawNewline(_)
HasRawNewline(x) ==
    CASE x.t = "str" -> \E i \in DOMAIN x.v : x.v[i] = "\n"
      [] x.t = "list" -> \E i \in DOMAIN x.v : HasRawNewline(x.v[i])
      [] x.t = "dict" -> \E k \in DOMAIN x.v : HasRawNewline(x.v[k])
      [] OTHER -> FALSE

\* C11: when connected, every hook that hands an event to _send makes exactly
\* one sendall call, whose bytes are the whole envelope of that event (its
\* type, the timestamp of the call, every key of its data) on one line, with
\* no raw newline inside, followed by one newline; a hook that hands no event
\* to _send makes no sendall call.
C11_OneWritePerEvent ==
    constructed = "connected" =>
        /\ event = NoEvent => written = <<>>
        /\ event # NoEvent =>
              /\ Len(written) = 1
              /\ written[1].msg.type = event.type
              /\ written[1].msg.timestamp = IsoZ(clock)
              /\ written[1].msg.data.t = "dict"
              /\ DOMAIN written[1].msg.data.v = DOMAIN event.data
              /\ ~HasRawNewline(written[1].msg.data)
              /\ written[1].end = "\n"

\* C11 witness: an item_ok event whose result holds a string of two lines has
\* been written and delivered
C11_Witness ==
    /\ constructed = "connected"
    /\ hook = "v2_runner_item_on_ok"
    /\ event # NoEvent
    /\ HasRawNewline(PyDict(event.data))
    /\ Len(written) = 1
    /\ written[1].delivered
    /\ written[1].msg.data.v["result"].v["msg"] = PyStr(<<"a", "\\", "n", "b">>)

\* the keys of the result of the last event that hold an object the JSON
\* encoder does not know
ObjKeys ==
    IF ResultEvent /\ event.data["result"].t = "dict"
    THEN {k \in DOMAIN event.data["result"].v : event.data["result"].v[k].t = "obj"}
    ELSE {}

RECURSIVE HasOmitKey(_)
HasOmitKey(x) ==
    CASE x.t = "list" -> \E i \in DOMAIN x.v : HasOmitKey(x.v[i])
      [] x.t = "dict" ->
           \/ DOMAIN x.v \cap {"ansible_facts", "ansible_env"} # {}
           \/ \E k \in DOMAIN x.v : HasOmitKey(x.v[k])
      [] OTHER -> FALSE

\* C13: no envelope written by a per-host, per-item or retry hook holds the
\* key ansible_facts or ansible_env anywhere in its data, at the top level of
\* the result or nested inside it.
C13_OmittedKeysNeverWritten ==
    \A i \in DOMAIN written :
        written[i].msg.type \in ResultKinds => ~HasOmitKey(written[i].msg.data)

\* the part of C13 that is about the top level of the result alone
C13_TopLevelDropped ==
    \A i \in DOMAIN written :
        written[i].msg.type \in ResultKinds =>
            DOMAIN written[i].msg.data.v["result"].v
                \cap {"ansible_facts", "ansible_env"} = {}

--------------------------------------------------------------------------
(* Claims about the fields of the events, checked under Spec *)

HostFields == {"host", "task", "task_uuid", "action", "changed", "duration", "result"}

\* C14: every item_ok, item_failed and item_skipped envelope written holds all
\* the host fields and both the loop item (item) and its label (item_label).
C14_ItemEventsCarryItemAndLabel ==
    \A i \in DOMAIN written :
        written[i].msg.type \in {"item_ok", "item_failed", "item_skipped"} =>
            HostFields \cup {"item", "item_label"} \subseteq DOMAIN written[i].msg.data.v

\* the part of C14 that holds: the host fields and the item are in all three
\* kinds of item event, the label in item_ok
C14_ItemEventsCarryItem ==
    \A i \in DOMAIN written :
        /\ written[i].msg.type \in {"item_ok", "item_failed", "item_skipped"} =>
              HostFields \cup {"item"} \subseteq DOMAIN written[i].msg.data.v
        /\ written[i].msg.type = "item_ok" =>
              "item_label" \in DOMAIN written[i].msg.data.v

TaskStartFields == {"name", "uuid", "action", "args", "path", "is_handler"}

\* C15: every task_start envelope (of the task-start hook and of the handler
\* task-start hook) and every host_task_start envelope written holds the
\* fields name, uuid, action, args, path and is_handler.
C15_TaskStartFields ==
    \A i \in DOMAIN written :
        written[i].msg.type \in {"task_start", "host_task_start"} =>
            TaskStartFields \subseteq DOMAIN written[i].msg.data.v

\* the part of C15 that holds: the task_start envelope of the regular
\* task-start hook has the six fields
C15_RegularTaskStartFields ==
    \A i \in DOMAIN written :
        (hook = "v2_playbook_on_task_start" /\ written[i].msg.type = "task_start") =>
            DOMAIN written[i].msg.data.v = TaskStartFields

\* C16: a step of v2_on_file_diff either hands a file_diff event with a
\* non-empty diff to _send, or (the result has no diff or an empty one) hands
\* nothing to _send, writes nothing and leaves the socket handle, the start
\* times and the timing table as they were.
C16_FileDiffOnlyWithDiff ==
    [][hook' = "v2_on_file_diff" =>
          IF event' = NoEvent
          THEN /\ written' = <<>>
               /\ UNCHANGED <<sock, connects, start_time, play_start_time,
                              task_start_times>>
          ELSE /\ event'.type = "file_diff"
               /\ PyTruthy(event'.data["diff"])]_vars

\* C16 witness: connected and with a recorded task start, v2_on_file_diff has
\* returned without handing an event to _send
C16_Witness ==
    /\ hook = "v2_on_file_diff"
    /\ sock = "socket"
    /\ task_start_times # EmptyMap
    /\ outcome = "returned"
    /\ event = NoEvent
    /\ written = <<>>

--------------------------------------------------------------------------
(* Claims about the timing table *)

\* C6: in every event built by _host_result the duration is null exactly when
\* the task uuid has no recorded start, and otherwise it is the elapsed time
\* rounded to two decimals, an elapsed time of zero included.
C6_DurationNullIffUnknown ==
    ResultEvent =>
        /\ (event.data["duration"] = PyNone) <=> (arg \notin DOMAIN task_start_times)
        /\ arg \in DOMAIN task_start_times =>
              event.data["duration"] = PyFloat2(Round2(clock - task_start_times[arg]))

\* C7: once a task-start hook has been invoked a second time for a task uuid,
\* the table holds the latest start and every result event for that uuid
\* reports the duration measured from it.  Checked under SpecTiming.
C7_DurationFromLatestStart ==
    (ResultEvent /\ arg \in restarted) =>
        /\ task_start_times[arg] = last_started[arg]
        /\ event.data["duration"] = PyFloat2(Round2(clock - last_started[arg]))

\* the part of C7 that is about the table alone
C7_TableHoldsLatestStart ==
    \A id \in restarted : task_start_times[id] = last_started[id]

\* C8: the result and diff hooks leave the timing table as it is, no hook
\* removes an entry, and every result event about a recorded task uuid has a
\* non-null duration.
C8_TableKeptAndDurationsNonNull ==
    /\ [][/\ hook' \in ResultHooks \cup {"v2_on_file_diff"} =>
                task_start_times' = task_start_times
          /\ DOMAIN task_start_times \subseteq DOMAIN task_start_times']_vars
    /\ []((ResultEvent /\ arg \in DOMAIN task_start_times) =>
             event.data["duration"] # PyNone)

\* the part of C8 that is about the table alone
C8_TableKept ==
    [][/\ hook' \in ResultHooks \cup {"v2_on_file_diff"} =>
             task_start_times' = task_start_times
       /\ DOMAIN task_start_times \subseteq DOMAIN task_start_times']_vars

\* C9: the timing table is a function of the task-start invocations alone:
\* it holds, for every task uuid a start hook was invoked for, the time of the
\* latest invocation, whether there is a socket or not and whether the write
\* went through or not.
C9_TableIndependentOfConnection == task_start_times = last_started

\* C9 witness: the start of a task is recorded though its task_start event
\* could not be delivered
C9_Witness ==
    /\ hook = "v2_playbook_on_task_start"
    /\ arg = "abc"
    /\ event # NoEvent
    /\ \/ sock = "None"
       \/ FailedNow
    /\ "abc" \in DOMAIN task_start_times
    /\ task_start_times["abc"] = clock

==========================================================================
